---- MODULE Spec2Model ----
(***************************************************************************)
(* Model of make87-messages-shipper: the topic-to-handler registry         *)
(* (src/src/message_handlers.rs) and the dispatch loop with its periodic   *)
(* sink-connection check (src/src/main.rs).                                *)
(*                                                                         *)
(* A topic key is a string.  It is modelled as a sequence of tokens whose  *)
(* concatenation is the string: the separator "/", the literal             *)
(* "make87_messages-" of the regex, schema identifiers and the filler "x". *)
(* No token contains a line break, a '/' or a part of the literal, so      *)
(* matching the regex token by token is matching it character by           *)
(* character.                                                              *)
(***************************************************************************)
EXTENDS Integers, Sequences, FiniteSets, TLC

VARIABLES
    topic_segs,     \* the subscription's key expression, as its '/'-separated segments
    resolutions,    \* number of calls of create_handler_from_topic_key
    message_type,   \* result of extract_message_type_from_topic_key ("none" = None)
    handler,        \* result of create_handler_from_topic_key ("none" = None)
    pc,             \* where main is
    rec,            \* the recording stream: the outbound handle
    last_connection_check,
    now,            \* the clock, in seconds
    received,       \* number of samples pulled from the subscription
    handled,        \* the samples passed to handle_message, in order
    last_result,    \* what the last handle_message returned
    sample,         \* the message last handled (<<>> = none), kept by SpecHandlers
    sink_calls,     \* the calls made on rec for it, in order, kept by SpecHandlers
    returned,       \* what process_header_and_set_time returned (<<>> = not called)
    probe,          \* the last timed probe: the sink's answer and the wait (<<>> = none)
    forwarded,      \* the artifacts the sink accepted: sample and handle, in order
    checks,         \* the connection checks made, in order
    statics         \* the diagnostics statics of message_handlers.rs

vars == <<topic_segs, resolutions, message_type, handler, pc, rec,
          last_connection_check, now, received, handled, last_result, sample,
          sink_calls, returned, probe, forwarded, checks, statics>>

----------------------------------------------------------------------------
(* Bounds *)

\* longest topic, in segments
MaxSegs == 6
\* samples the subscription delivers
MaxMsgs == 2
\* last instant of the clock
MaxTime == 5

----------------------------------------------------------------------------
(* Topic strings *)

SEP == "/"
PREFIX == "make87_messages-"

\* The segments topics are built from, each a sequence of tokens.
SegmentKinds ==
    { <<"x">>,
      <<"text-PlainText">>,                         \* bare identifier
      <<PREFIX>>,                                   \* literal with nothing after it
      <<PREFIX, "text-PlainText">>,
      <<PREFIX, "image-uncompressed-ImageNV12">> }  \* well-formed, not registered

RECURSIVE Flatten(_)
\* the topic string of a sequence of segments: the segments joined by "/"
Flatten(segs) ==
    IF Len(segs) = 0 THEN <<>>
    ELSE IF Len(segs) = 1 THEN segs[1]
    ELSE segs[1] \o <<SEP>> \o Flatten(Tail(segs))

RECURSIVE Concat(_)
\* the string a sequence of tokens spells
Concat(toks) == IF toks = <<>> THEN "" ELSE toks[1] \o Concat(Tail(toks))

Max(S) == CHOOSE m \in S : \A k \in S : k <= m
Min(S) == CHOOSE m \in S : \A k \in S : m <= k

----------------------------------------------------------------------------
(* MessageTypeRegistry *)

\* HashMap::insert: one factory per identifier, a later one overwrites
register(handlers, message_type_key, factory) ==
    [k \in (DOMAIN handlers) \cup {message_type_key} |->
        IF k = message_type_key THEN factory ELSE handlers[k]]

EmptyMap == [k \in {} |-> "none"]

\* the schema each handler's ProtobufEncoder decodes
encoder ==
    [h \in {"TextPlainTextHandler", "ImageCompressedJpegHandler", "ImageRawAnyHandler",
            "ImageYuv420Handler", "ImageRgb888Handler", "ImageRgba8888Handler",
            "Boxes2DAxisAlignedHandler"} |->
        CASE h = "TextPlainTextHandler" -> "text::PlainText"
          [] h = "ImageCompressedJpegHandler" -> "image::compressed::ImageJpeg"
          [] h = "ImageRawAnyHandler" -> "image::uncompressed::ImageRawAny"
          [] h = "ImageYuv420Handler" -> "image::uncompressed::ImageYuv420"
          [] h = "ImageRgb888Handler" -> "image::uncompressed::ImageRgb888"
          [] h = "ImageRgba8888Handler" -> "image::uncompressed::ImageRgba8888"
          [] h = "Boxes2DAxisAlignedHandler" -> "detection::box::Boxes2DAxisAligned"]

\* a registry with an eighth registration, for NV12
MessageTypeRegistry_withNv12 ==
    LET r1 == register(EmptyMap, "text-PlainText", "TextPlainTextHandler")
        r2 == register(r1, "image-compressed-ImageJPEG", "ImageCompressedJpegHandler")
        r3 == register(r2, "image-uncompressed-ImageRawAny", "ImageRawAnyHandler")
        r4 == register(r3, "image-uncompressed-ImageYUV420", "ImageYuv420Handler")
        r5 == register(r4, "image-uncompressed-ImageRGB888", "ImageRgb888Handler")
        r6 == register(r5, "image-uncompressed-ImageRGBA8888", "ImageRgba8888Handler")
        r7 == register(r6, "detection-box-Boxes2DAxisAligned", "Boxes2DAxisAlignedHandler")
    IN  register(r7, "image-uncompressed-ImageNV12", "ImageYuv420Handler")

MessageTypeRegistry_new ==
    LET r1 == register(EmptyMap, "text-PlainText", "TextPlainTextHandler")
        r2 == register(r1, "image-compressed-ImageJPEG", "ImageCompressedJpegHandler")
        r3 == register(r2, "image-uncompressed-ImageRawAny", "ImageRawAnyHandler")
        r4 == register(r3, "image-uncompressed-ImageYUV420", "ImageYuv420Handler")
        r5 == register(r4, "image-uncompressed-ImageRGB888", "ImageRgb888Handler")
        r6 == register(r5, "image-uncompressed-ImageRGBA8888", "ImageRgba8888Handler")
    IN  register(r6, "detection-box-Boxes2DAxisAligned", "Boxes2DAxisAlignedHandler")

\* '.' of the regex: any character but a line break
Dot(tok) == tok # "\n"

DotRun(t, a, b) == \A k \in a..b : Dot(t[k])

SlashPos(t) == {k \in 1..Len(t) : t[k] = SEP}

\* end of the capture "([^/]+)/" that begins right after the literal at p:
\* the longest run of non-'/' characters, which a '/' must follow; 0 = no match
CaptureEnd(t, p) ==
    LET stops == {k \in (p + 1)..Len(t) : t[k] = SEP}
    IN  IF stops = {} THEN 0
        ELSE IF Min(stops) = p + 1 THEN 0
        ELSE Min(stops) - 1

\* "/make87_messages-([^/]+)/.*" matches with its first '/' at position i
TailMatch(t, i) ==
    /\ i + 1 <= Len(t)
    /\ t[i + 1] = PREFIX
    /\ CaptureEnd(t, i + 1) # 0
    /\ DotRun(t, CaptureEnd(t, i + 1) + 2, Len(t))

\* a lazy variant of the pattern (".*?"): the first candidate, not the last
extract_message_type_lazy(t) ==
    LET tails == {i \in SlashPos(t) : TailMatch(t, i)}
        ok == {i \in tails : Cardinality({k \in SlashPos(t) : k < i}) >= 2}
    IN  IF ok = {} THEN "none"
        ELSE Concat(SubSeq(t, Min(ok) + 2, CaptureEnd(t, Min(ok) + 1)))

\* Regex::captures(r".*/.*/.*/make87_messages-([^/]+)/.*"): the leftmost
\* match, every ".*" taking as much as it can, in order; group 1 of it.
\* third, second, first: the positions where the '/' ending the third, second
\* and first ".*/" can be, when the ".*" before it begins at from.
extract_message_type_from_topic_key(t) ==
    LET slash == SlashPos(t)
        tails == {i \in slash : TailMatch(t, i)}
        third(from) == {i \in tails : i >= from /\ DotRun(t, from, i - 1)}
        second(from) == {i \in slash : i >= from /\ DotRun(t, from, i - 1) /\ third(i + 1) # {}}
        first(from) == {i \in slash : i >= from /\ DotRun(t, from, i - 1) /\ second(i + 1) # {}}
        \* the search tries each start position in turn; 0 = no match anywhere
        leftmost[s \in 1..(Len(t) + 2)] ==
            IF s = Len(t) + 2 THEN 0
            ELSE IF first(s) # {} THEN s
            ELSE leftmost[s + 1]
    IN  IF tails = {} \/ leftmost[1] = 0 THEN "none"
        ELSE LET s  == leftmost[1]
                 i1 == Max(first(s))
                 i2 == Max(second(i1 + 1))
                 i3 == Max(third(i2 + 1))
             IN  Concat(SubSeq(t, i3 + 2, CaptureEnd(t, i3 + 1)))

create_handler_from_topic_key(handlers, t) ==
    LET mt == extract_message_type_from_topic_key(t)
    IN  IF mt = "none" THEN "none"
        ELSE IF mt \notin DOMAIN handlers THEN "none"
        ELSE handlers[mt]

----------------------------------------------------------------------------
(* Timestamps.  A u64 is kept as three digits in base 10^9, most significant *)
(* first, so that 2^64 and the checked additions keep their real width.      *)

BILLION == 1000000000
U64_MAX == <<18, 446744073, 709551615>>
I64_MAX == <<9, 223372036, 854775807>>

\* carry the digits of d into range
Norm(d) ==
    LET mid == d[2] + (d[3] \div BILLION)
    IN  <<d[1] + (mid \div BILLION), mid % BILLION, d[3] % BILLION>>

\* a > b, as numbers
Greater(a, b) ==
    \/ a[1] > b[1]
    \/ a[1] = b[1] /\ a[2] > b[2]
    \/ a[1] = b[1] /\ a[2] = b[2] /\ a[3] > b[3]

\* "v as u64" for a signed v: the two's complement bits read as unsigned
as_u64(v) ==
    IF v >= 0 THEN Norm(<<0, 0, v>>)
    ELSE Norm(<<18, 446744073, 709551616 + v>>)

Duration_from_secs(u) == [secs |-> u, nanos |-> 0]
Duration_from_nanos(u) == [secs |-> <<0, u[1], u[2]>>, nanos |-> u[3]]

\* Duration + Duration: panics when the seconds overflow a u64
Duration_add(a, b) ==
    LET n == a.nanos + b.nanos
        carry == IF n >= BILLION THEN 1 ELSE 0
        secs == Norm(<<a.secs[1] + b.secs[1], a.secs[2] + b.secs[2],
                       a.secs[3] + b.secs[3] + carry>>)
    IN  IF Greater(secs, U64_MAX) THEN [panic |-> TRUE]
        ELSE [panic |-> FALSE, secs |-> secs, nanos |-> n - carry * BILLION]

\* UNIX_EPOCH + Duration: panics when the seconds do not fit the i64 of a
\* SystemTime
SystemTime_add(d) ==
    IF Greater(d.secs, I64_MAX) THEN [panic |-> TRUE]
    ELSE [panic |-> FALSE, secs |-> d.secs, nanos |-> d.nanos]

\* seconds within the day, 10^9 and 10^18 being 6400 modulo 86400
SecondOfDay(u) == (u[1] * 6400 + (u[2] % 86400) * 6400 + (u[3] % 86400)) % 86400

\* the fields of "HH:MM:SS.mmm", or a panic
format_timestamp_human_readable(ts) ==
    LET duration == Duration_add(Duration_from_secs(as_u64(ts.seconds)),
                                 Duration_from_nanos(as_u64(ts.nanos)))
    IN  IF duration.panic THEN [panic |-> TRUE]
        ELSE LET system_time == SystemTime_add(duration)
             IN  IF system_time.panic THEN [panic |-> TRUE]
                 ELSE LET sod == SecondOfDay(system_time.secs)
                      IN  [panic |-> FALSE,
                           text |-> <<sod \div 3600, (sod \div 60) % 60, sod % 60,
                                      system_time.nanos \div 1000000>>]

\* seconds as f64 + nanos / 1e9, kept exactly, in nanoseconds
timestamp_to_secs_f64(ts) == ts.seconds * BILLION + ts.nanos

\* the diagnostics statics: LAST_CAMERA_TIMESTAMP (<<>> = None),
\* TOTAL_FRAMES_RECEIVED, TOTAL_FRAMES_DROPPED and Yuv420Handler's FLUSH_COUNTER
detect_frame_drops(st, current_timestamp) ==
    LET frames_received == st.total_frames_received + 1
        time_gap == IF st.last_camera_timestamp = <<>> THEN 0
                    ELSE current_timestamp - st.last_camera_timestamp[1]
        expected_frames == (time_gap + 25000000) \div 50000000
        dropped_frames == expected_frames - 1
        counted == st.last_camera_timestamp # <<>> /\ time_gap > 75000000
                   /\ dropped_frames > 0
    IN  [st EXCEPT !.total_frames_received = frames_received,
                   !.total_frames_dropped = IF counted THEN @ + dropped_frames ELSE @,
                   !.last_camera_timestamp = <<current_timestamp>>]

----------------------------------------------------------------------------
(* Message handlers.  A handler returns its result, the calls it made on    *)
(* the recording stream, in order, and the statics it leaves.               *)

\* a normalisation that prepends the separator to every path
ensure_leading_slash_always(entity_path) == <<SEP>> \o entity_path

ensure_leading_slash(entity_path) ==
    IF Len(entity_path) > 0 /\ entity_path[1] = SEP THEN entity_path
    ELSE <<SEP>> \o entity_path

\* the time the header gives, or the wall clock
HeaderTime(header, wallclock) ==
    IF header # <<>> /\ header[1].timestamp # <<>>
    THEN [from |-> "header", t |-> timestamp_to_secs_f64(header[1].timestamp[1])]
    ELSE [from |-> "wallclock", t |-> wallclock]

process_header_and_set_time(header, wallclock) ==
    LET entity_path == IF header # <<>> THEN ensure_leading_slash(header[1].entity_path)
                       ELSE <<SEP>>
        header_time == HeaderTime(header, wallclock)
    IN  [entity_path |-> entity_path,
         header_time |-> header_time,
         calls |-> << [op |-> "set_time", timeline |-> "header_time",
                       time |-> header_time] >>]

\* rec.log(entity_path, artifact)
LogCall(entity_path, artifact, log_ok) ==
    [op |-> "log", path |-> entity_path, artifact |-> artifact, ok |-> log_ok]

\* the "Camera timestamp" line of the text, JPEG and raw-any handlers
PrintsTimestamp(m) == m.header # <<>> /\ m.header[1].timestamp # <<>>
PrintPanics(m) ==
    PrintsTimestamp(m) /\ format_timestamp_human_readable(m.header[1].timestamp[1]).panic

Result(outcome, calls, st) == [outcome |-> outcome, calls |-> calls, statics |-> st]

\* decode, set the time, log one artifact
LogOne(m, wallclock, st, artifact) ==
    LET p == process_header_and_set_time(m.header, wallclock)
    IN  Result(IF m.log_ok THEN "ok" ELSE "err",
               p.calls \o <<LogCall(p.entity_path, artifact, m.log_ok)>>, st)

TextPlainTextHandler_handle_message(m, wallclock, st) ==
    IF ~m.decode_ok THEN Result("err", <<>>, st)
    ELSE IF PrintPanics(m) THEN Result("panic", <<>>, st)
    ELSE LogOne(m, wallclock, st, "TextDocument")

ImageCompressedJpegHandler_handle_message(m, wallclock, st) ==
    IF ~m.decode_ok THEN Result("err", <<>>, st)
    ELSE IF PrintPanics(m) THEN Result("panic", <<>>, st)
    ELSE LogOne(m, wallclock, st, "EncodedImage image/jpeg")

\* Yuv420Handler::log_to_rerun: the image, built from width, height and the
\* data as they are, then a flush every tenth frame
Yuv420Handler_log_to_rerun(entity_path, log_ok, st) ==
    IF ~log_ok THEN Result("err", <<LogCall(entity_path, "Image Y_U_V12_LimitedRange", FALSE)>>, st)
    ELSE Result("ok",
                <<LogCall(entity_path, "Image Y_U_V12_LimitedRange", TRUE)>>
                    \o (IF st.flush_counter % 10 = 0 THEN <<[op |-> "flush_async"]>> ELSE <<>>),
                [st EXCEPT !.flush_counter = @ + 1])

\* Rgb888Handler, Rgba8888Handler, Nv12Handler::log_to_rerun: the image, built
\* from width, height and the data as they are
Plain_log_to_rerun(entity_path, artifact, log_ok, st) ==
    Result(IF log_ok THEN "ok" ELSE "err", <<LogCall(entity_path, artifact, log_ok)>>, st)

handle_image_format(format, entity_path, log_ok, st) ==
    CASE format = "Yuv420" -> Yuv420Handler_log_to_rerun(entity_path, log_ok, st)
      [] format = "Rgb888" -> Plain_log_to_rerun(entity_path, "Image rgb8", log_ok, st)
      [] format = "Rgba8888" -> Plain_log_to_rerun(entity_path, "Image rgba8", log_ok, st)
      [] format = "Nv12" -> Plain_log_to_rerun(entity_path, "Image NV12", log_ok, st)

ImageRawAnyHandler_handle_message(m, wallclock, st) ==
    IF ~m.decode_ok THEN Result("err", <<>>, st)
    ELSE LET st1 == IF PrintsTimestamp(m)
                    THEN detect_frame_drops(st, timestamp_to_secs_f64(m.header[1].timestamp[1]))
                    ELSE st
         IN  IF PrintPanics(m) THEN Result("panic", <<>>, st1)
             ELSE LET p == process_header_and_set_time(m.header, wallclock)
                  IN  IF m.image = <<>> THEN Result("err", p.calls, st1)
                      ELSE IF m.image[1] \in {"Yuv422", "Yuv444"} THEN Result("ok", p.calls, st1)
                      ELSE LET r == handle_image_format(m.image[1], p.entity_path, m.log_ok, st1)
                           IN  Result(r.outcome, p.calls \o r.calls, r.statics)

\* ImageYuv420Handler, ImageRgb888Handler, ImageRgba8888Handler
SingleFormat_handle_message(format, m, wallclock, st) ==
    IF ~m.decode_ok THEN Result("err", <<>>, st)
    ELSE LET p == process_header_and_set_time(m.header, wallclock)
             r == handle_image_format(format, p.entity_path, m.log_ok, st)
         IN  Result(r.outcome, p.calls \o r.calls, r.statics)

Boxes2DAxisAlignedHandler_handle_message(m, wallclock, st) ==
    IF ~m.decode_ok THEN Result("err", <<>>, st)
    ELSE LET p == process_header_and_set_time(m.header, wallclock)
             box_centers == SelectSeq(m.boxes, LAMBDA b : b # <<>>)
         IN  IF m.boxes = <<>> THEN Result("ok", p.calls, st)
             ELSE IF box_centers = <<>> THEN Result("ok", p.calls, st)
             ELSE Result(IF m.log_ok THEN "ok" ELSE "err",
                         p.calls \o <<LogCall(p.entity_path, "Boxes2D", m.log_ok)>>, st)

\* dyn MessageHandler::handle_message
handle_message(h, m, wallclock, st) ==
    CASE h = "TextPlainTextHandler" -> TextPlainTextHandler_handle_message(m, wallclock, st)
      [] h = "ImageCompressedJpegHandler" -> ImageCompressedJpegHandler_handle_message(m, wallclock, st)
      [] h = "ImageRawAnyHandler" -> ImageRawAnyHandler_handle_message(m, wallclock, st)
      [] h = "ImageYuv420Handler" -> SingleFormat_handle_message("Yuv420", m, wallclock, st)
      [] h = "ImageRgb888Handler" -> SingleFormat_handle_message("Rgb888", m, wallclock, st)
      [] h = "ImageRgba8888Handler" -> SingleFormat_handle_message("Rgba8888", m, wallclock, st)
      [] h = "Boxes2DAxisAlignedHandler" -> Boxes2DAxisAlignedHandler_handle_message(m, wallclock, st)

----------------------------------------------------------------------------
(* main *)

CONNECTION_CHECK_INTERVAL == 2

\* what GrpcSink::status() delivers within the timeout; "NoStatus": nothing
\* arrives (the sink is not a GrpcSink, or the 100 ms pass)
ProbeOutcomes == {"Connected", "Connecting", "Disconnected", "NoStatus"}

\* a probe that takes only Connected for a healthy connection
check_grpc_connection_strict(status) == status = "Connected"

\* a probe that takes a missing status for a healthy connection
check_grpc_connection_optimistic(status) == status # "Disconnected"

check_grpc_connection(status) ==
    CASE status = "Connected" -> TRUE
      [] status = "Connecting" -> TRUE
      [] status = "Disconnected" -> FALSE
      [] status = "NoStatus" -> FALSE

\* RerunGRpcInterface::get_client_recording_stream(name), when it succeeds:
\* a new stream to the interface's configured server
get_client_recording_stream(name, id) ==
    [id |-> id, interface |-> "rerun-grpc", name |-> name]

NoRec == [id |-> 0, interface |-> "none", name |-> "none"]

InitStatics ==
    [last_camera_timestamp |-> <<>>, total_frames_received |-> 0,
     total_frames_dropped |-> 0, flush_counter |-> 0]

\* the messages a payload can decode to
Timestamps ==
    { [seconds |-> 0, nanos |-> 0],
      [seconds |-> 0, nanos |-> 100000000],
      [seconds |-> -1, nanos |-> 0],
      [seconds |-> -1, nanos |-> -1] }

Paths == { <<>>, <<"cam0", SEP, "front">>, <<SEP, "cam0", SEP, "front">>, <<SEP, SEP, "cam0">> }

HeadersWith(timestamps, paths) ==
    {<<>>} \cup { <<[timestamp |-> t, entity_path |-> p]>> :
                    t \in {<<>>} \cup {<<x>> : x \in timestamps}, p \in paths }

Headers == HeadersWith(Timestamps, Paths)

Images == {<<>>} \cup { <<f>> : f \in {"Rgb888", "Rgba8888", "Yuv420", "Yuv422", "Yuv444", "Nv12"} }

BoxLists == { <<>>, << <<>> >>, << <<"geometry">> >>, << <<>>, <<"geometry">> >> }

\* lengths of pixel data for a 2 x 2 image: 6 bytes are a YUV420 or NV12
\* frame, 12 an RGB888 and 16 an RGBA8888 one, 5 are none
Lens == {5, 6, 12, 16}

\* the width, height and data of an image message (<<>>: the message has none)
PixelsWith(lens) == { <<[width |-> 2, height |-> 2, len |-> n]>> : n \in lens }

\* the image variant and the pixels a message of handler h's schema carries
ImagesOf(h, lens) ==
    IF h = "ImageRawAnyHandler"
    THEN { <<i, IF i = <<>> THEN <<>> ELSE px>> :
             i \in Images \ {<<"Yuv422">>, <<"Yuv444">>}, px \in PixelsWith(lens) }
         \cup { <<i, px>> : i \in {<<"Yuv422">>, <<"Yuv444">>}, px \in PixelsWith({8}) }
    ELSE IF h \in {"ImageYuv420Handler", "ImageRgb888Handler", "ImageRgba8888Handler"}
    THEN { <<<<>>, px>> : px \in PixelsWith(lens) }
    ELSE { <<<<>>, <<>>>> }

Undecodable ==
    [decode_ok |-> FALSE, header |-> <<>>, image |-> <<>>, pixels |-> <<>>,
     boxes |-> <<>>, log_ok |-> FALSE]

MessagesWith(h, headers, lens) ==
    {Undecodable} \cup
    { [decode_ok |-> TRUE, header |-> hd, image |-> ip[1], pixels |-> ip[2],
       boxes |-> b, log_ok |-> l] :
        hd \in headers,
        ip \in ImagesOf(h, lens),
        b \in IF h = "Boxes2DAxisAlignedHandler" THEN BoxLists ELSE {<<>>},
        l \in BOOLEAN }

Messages(h) == MessagesWith(h, Headers, Lens)

\* the messages the handlers are run on: a relative and an absolute path,
\* and one of the negative timestamps
HandlerMessages(h) ==
    MessagesWith(h, HeadersWith({ts \in Timestamps : ts.nanos >= 0},
                                {<<"cam0", SEP, "front">>, <<SEP, "cam0", SEP, "front">>}),
                 Lens)

\* the messages the dispatch loop is run on: one entity path, one length of
\* pixel data and timestamps of whole seconds; a raw-any message carries the
\* negative one or none, which keeps the frame statistics, that nothing reads
\* but a print, small
LoopTimestamps(h) ==
    {ts \in Timestamps : ts.nanos = 0 /\ (h = "ImageRawAnyHandler" => ts.seconds < 0)}

LoopMessages(h) ==
    MessagesWith(h, HeadersWith(LoopTimestamps(h), {<<"cam0", SEP, "front">>}), {6})

\* config, session, recording stream and subscriber are obtained.  The Fifo
\* and the Ring arm of the match that follows are the same code: the actions
\* below are either.
Startup ==
    /\ pc = "start"
    /\ rec' = get_client_recording_stream("rerun-grpc-client", 1)
    /\ last_connection_check' = now
    /\ pc' = "subscribed"
    /\ UNCHANGED <<topic_segs, resolutions, message_type, handler, now, received, handled,
                   last_result, sample, sink_calls, returned, probe, forwarded, checks, statics>>

\* one of them fails: main returns the error
StartupFails ==
    /\ pc = "start"
    /\ pc' = "failed"
    /\ UNCHANGED <<topic_segs, resolutions, message_type, handler, rec,
                   last_connection_check, now, received, handled, last_result, sample, sink_calls, returned, probe,
                   forwarded, checks, statics>>

\* a loop that resolves the handler again for every sample
Resolve_PerMessage ==
    /\ pc \in {"subscribed", "recv"}
    /\ resolutions' = resolutions + 1
    /\ LET t == Flatten(topic_segs)
           h == create_handler_from_topic_key(MessageTypeRegistry_new, t)
       IN  /\ message_type' = extract_message_type_from_topic_key(t)
           /\ handler' = h
           /\ pc' = IF h = "none" THEN "failed" ELSE "recv"
    /\ UNCHANGED <<topic_segs, rec, last_connection_check, now, received, handled,
                   last_result, sample, sink_calls, returned, probe, forwarded, checks, statics>>

\* registry.create_handler_from_topic_key(sub.key_expr()).ok_or_else(..)?
Resolve ==
    /\ pc = "subscribed"
    /\ resolutions' = resolutions + 1
    /\ LET t == Flatten(topic_segs)
           h == create_handler_from_topic_key(MessageTypeRegistry_new, t)
       IN  /\ message_type' = extract_message_type_from_topic_key(t)
           /\ handler' = h
           /\ pc' = IF h = "none" THEN "failed" ELSE "recv"
    /\ UNCHANGED <<topic_segs, rec, last_connection_check, now, received, handled,
                   last_result, sample, sink_calls, returned, probe, forwarded, checks, statics>>

\* a loop that pulls the next sample while one is waiting for the handler
Recv_Prefetch ==
    /\ pc \in {"recv", "handle"}
    /\ received < MaxMsgs
    /\ received' = received + 1
    /\ pc' = "loop"
    /\ UNCHANGED <<topic_segs, resolutions, message_type, handler, rec,
                   last_connection_check, now, handled, last_result, sample, sink_calls, returned, probe,
                   forwarded, checks, statics>>

\* while let Ok(sample) = sub.recv_async().await
Recv ==
    /\ pc = "recv"
    /\ received < MaxMsgs
    /\ received' = received + 1
    /\ pc' = "loop"
    /\ UNCHANGED <<topic_segs, resolutions, message_type, handler, rec,
                   last_connection_check, now, handled, last_result, sample, sink_calls, returned, probe,
                   forwarded, checks, statics>>

\* recv_async fails: the subscription is closed, the loop ends, main returns Ok(())
RecvClosed ==
    /\ pc = "recv"
    /\ pc' = "done"
    /\ UNCHANGED <<topic_segs, resolutions, message_type, handler, rec,
                   last_connection_check, now, received, handled, last_result, sample, sink_calls, returned, probe,
                   forwarded, checks, statics>>

\* a check on every sample
CheckDue_Always == TRUE

\* no further check once a reconnect has failed
CheckDue_GivesUp ==
    /\ now - last_connection_check >= CONNECTION_CHECK_INTERVAL
    /\ \A i \in 1..Len(checks) : checks[i].reconnect # "failed"

\* last_connection_check.elapsed() >= CONNECTION_CHECK_INTERVAL
CheckDue == now - last_connection_check >= CONNECTION_CHECK_INTERVAL

SkipCheck ==
    /\ pc = "loop"
    /\ ~CheckDue
    /\ pc' = "handle"
    /\ UNCHANGED <<topic_segs, resolutions, message_type, handler, rec,
                   last_connection_check, now, received, handled, last_result, sample, sink_calls, returned, probe,
                   forwarded, checks, statics>>

\* if !check_grpc_connection(&rec)
Probe ==
    /\ pc = "loop"
    /\ CheckDue
    /\ \E status \in ProbeOutcomes :
        /\ checks' = Append(checks, [at |-> now, sample |-> received, status |-> status,
                                     reconnect |-> "none"])
        /\ pc' = IF check_grpc_connection(status) THEN "reset" ELSE "reconnect"
    /\ UNCHANGED <<topic_segs, resolutions, message_type, handler, rec,
                   last_connection_check, now, received, handled, last_result, sample, sink_calls, returned, probe,
                   forwarded, statics>>

\* rx.recv_timeout(Duration::from_millis(100)) in milliseconds
PROBE_TIMEOUT == 100

\* what the sink does with the closure of inspect_sink: a GrpcSink sends its
\* status when it runs the closure, `at` milliseconds after the call; any
\* other sink runs it and sends nothing, which drops the sender; a stalled
\* sink does not run it
Sinks ==
    { [kind |-> "grpc", status |-> st, at |-> a] :
        st \in {"Connected", "Connecting", "Disconnected"}, a \in {0, 50, 150} }
    \cup { [kind |-> "other", status |-> "NoStatus", at |-> a] : a \in {0, 50, 150} }
    \cup { [kind |-> "stalled", status |-> "NoStatus", at |-> 0] }

\* rx.recv_timeout: the status sent before the timeout; an error at once when
\* the sender is dropped before it; an error at the timeout otherwise
recv_timeout(sink) ==
    IF sink.kind = "stalled" \/ sink.at >= PROBE_TIMEOUT
    THEN [status |-> "NoStatus", waited |-> PROBE_TIMEOUT]
    ELSE [status |-> sink.status, waited |-> sink.at]

\* if !check_grpc_connection(&rec), with the sink's answer and the time the
\* call took kept
ProbeTimed ==
    /\ pc = "loop"
    /\ CheckDue
    /\ \E sink \in Sinks :
        LET r == recv_timeout(sink)
        IN  /\ probe' = <<[sink |-> sink, waited |-> r.waited]>>
            /\ checks' = Append(checks, [at |-> now, sample |-> received,
                                         status |-> r.status, reconnect |-> "none"])
            /\ pc' = IF check_grpc_connection(r.status) THEN "reset" ELSE "reconnect"
    /\ UNCHANGED <<topic_segs, resolutions, message_type, handler, rec,
                   last_connection_check, now, received, handled, last_result, sample,
                   sink_calls, returned, forwarded, statics>>

\* a reconnect that replaces the handle whether or not a stream was obtained
Reconnect_Replaces ==
    /\ pc = "reconnect"
    /\ \E ok \in BOOLEAN :
        /\ rec' = get_client_recording_stream("rerun-grpc-client", rec.id + 1)
        /\ checks' = [checks EXCEPT ![Len(checks)].reconnect = IF ok THEN "ok" ELSE "failed"]
    /\ pc' = "reset"
    /\ UNCHANGED <<topic_segs, resolutions, message_type, handler,
                   last_connection_check, now, received, handled, last_result, sample, sink_calls, returned, probe,
                   forwarded, statics>>

\* match rerun_grpc_interface.get_client_recording_stream("rerun-grpc-client")
Reconnect ==
    /\ pc = "reconnect"
    /\ \E ok \in BOOLEAN :
        /\ rec' = IF ok THEN get_client_recording_stream("rerun-grpc-client", rec.id + 1)
                  ELSE rec
        /\ checks' = [checks EXCEPT ![Len(checks)].reconnect = IF ok THEN "ok" ELSE "failed"]
    /\ pc' = "reset"
    /\ UNCHANGED <<topic_segs, resolutions, message_type, handler,
                   last_connection_check, now, received, handled, last_result, sample, sink_calls, returned, probe,
                   forwarded, statics>>

\* last_connection_check = Instant::now()
ResetTimer ==
    /\ pc = "reset"
    /\ last_connection_check' = now
    /\ pc' = "handle"
    /\ UNCHANGED <<topic_segs, resolutions, message_type, handler, rec, now, received,
                   handled, last_result, sample, sink_calls, returned, probe, forwarded, checks, statics>>

\* the artifacts among the calls that the sink accepted
Accepted(calls, k, handle) ==
    LET logs == SelectSeq(calls, LAMBDA c : c.op = "log" /\ c.ok)
    IN  [i \in 1..Len(logs) |-> [sample |-> k, handle |-> handle]]

\* a loop that hands a sample to the handler again when handling it failed
HandleMessage_Retry ==
    /\ pc = "handle"
    /\ \E m \in LoopMessages(handler) :
        LET r == handle_message(handler, m, now, statics)
        IN  /\ handled' = Append(handled, received)
            /\ last_result' = r.outcome
            /\ forwarded' = forwarded \o Accepted(r.calls, received, rec.id)
            /\ statics' = r.statics
            /\ pc' = CASE r.outcome = "panic" -> "panicked"
                        [] r.outcome = "err" /\ Len(handled) < MaxMsgs -> "handle"
                        [] OTHER -> "recv"
    /\ UNCHANGED <<topic_segs, resolutions, message_type, handler, rec,
                   last_connection_check, now, received, sample, sink_calls, returned, probe, checks>>

\* if let Err(e) = handler.handle_message(&sample, &rec) { log::error!(..) },
\* on a payload decoding to one of msgs
Handle(msgs, keep) ==
    /\ pc = "handle"
    /\ \E m \in msgs :
        LET r == handle_message(handler, m, now, statics)
        IN  /\ handled' = Append(handled, received)
            /\ last_result' = r.outcome
            /\ forwarded' = forwarded \o Accepted(r.calls, received, rec.id)
            /\ statics' = r.statics
            /\ sample' = IF keep THEN <<m>> ELSE sample
            /\ sink_calls' = IF keep THEN r.calls ELSE sink_calls
            /\ UNCHANGED <<returned, probe>>
            /\ pc' = IF r.outcome = "panic" THEN "panicked" ELSE "recv"
    /\ UNCHANGED <<topic_segs, resolutions, message_type, handler, rec,
                   last_connection_check, now, received, checks>>

HandleMessage == Handle(LoopMessages(handler), FALSE)

\* the same step, on every message, with the message and the calls kept
HandleRecorded == Handle(HandlerMessages(handler), TRUE)

\* a clock that makes the check itself, on a timer, while main waits
Tick_Polls ==
    /\ pc \in {"recv", "reconnect"}
    /\ now < MaxTime
    /\ now' = now + 1
    /\ IF pc = "recv" /\ now' - last_connection_check >= CONNECTION_CHECK_INTERVAL
       THEN /\ checks' = Append(checks, [at |-> now', sample |-> received,
                                         status |-> "Connected", reconnect |-> "none"])
            /\ last_connection_check' = now'
       ELSE UNCHANGED <<checks, last_connection_check>>
    /\ UNCHANGED <<topic_segs, resolutions, message_type, handler, pc, rec,
                   received, handled, last_result, sample, sink_calls, returned, probe,
                   forwarded, statics>>

\* time passes, while main waits for a sample or for the sink
Tick ==
    /\ pc \in {"recv", "reconnect"}
    /\ now < MaxTime
    /\ now' = now + 1
    /\ UNCHANGED <<topic_segs, resolutions, message_type, handler, pc, rec,
                   last_connection_check, received, handled, last_result, sample, sink_calls, returned, probe,
                   forwarded, checks, statics>>

\* the subscriptions of the dispatch loop: one topic per registered
\* identifier, one of a type that is not registered, one that names no type
Topics ==
    { <<<<"x">>, <<"x">>, <<"x">>, <<PREFIX, id>>, <<"x">>>> :
        id \in (DOMAIN MessageTypeRegistry_new) \cup {"image-uncompressed-ImageNV12"} }
    \cup { <<<<"x">>, <<"x">>, <<"x">>, <<"text-PlainText">>, <<"x">>>> }

InitCommon ==
    /\ resolutions = 0
    /\ message_type = "none"
    /\ handler = "none"
    /\ rec = NoRec
    /\ last_connection_check = 0
    /\ now = 0
    /\ received = 0
    /\ handled = <<>>
    /\ last_result = "none"
    /\ sample = <<>>
    /\ sink_calls = <<>>
    /\ returned = <<>>
    /\ probe = <<>>
    /\ forwarded = <<>>
    /\ checks = <<>>
    /\ statics = InitStatics

Init ==
    /\ topic_segs \in Topics
    /\ pc = "start"
    /\ InitCommon

Next ==
    \/ Startup
    \/ StartupFails
    \/ Resolve
    \/ Recv
    \/ RecvClosed
    \/ SkipCheck
    \/ Probe
    \/ Reconnect
    \/ ResetTimer
    \/ HandleMessage
    \/ Tick

Spec == Init /\ [][Next]_vars

----------------------------------------------------------------------------
(* Specification of the handlers: the loop while no check is due, on every *)
(* message, what the handler did with each one kept                         *)

NextHandlers ==
    \/ Startup
    \/ Resolve
    \/ Recv
    \/ SkipCheck
    \/ HandleRecorded

SpecHandlers == Init /\ [][NextHandlers]_vars

----------------------------------------------------------------------------
(* Specification of the timed probe: the dispatch loop of a text            *)
(* subscription, each probe with what the sink did and how long it took     *)

InitProbe ==
    /\ topic_segs = <<<<"x">>, <<"x">>, <<"x">>, <<PREFIX, "text-PlainText">>, <<"x">>>>
    /\ pc = "start"
    /\ InitCommon

NextProbe ==
    \/ Startup
    \/ Resolve
    \/ Recv
    \/ SkipCheck
    \/ ProbeTimed
    \/ Reconnect
    \/ ResetTimer
    \/ HandleMessage
    \/ Tick

SpecProbe == InitProbe /\ [][NextProbe]_vars

----------------------------------------------------------------------------
(* Specification of process_header_and_set_time: a handler that has decoded *)
(* a message calls it on the header, at any wall-clock time                 *)

InitHeader ==
    /\ topic_segs = <<<<"x">>, <<"x">>, <<"x">>, <<PREFIX, "text-PlainText">>, <<"x">>>>
    /\ pc = "decoded"
    /\ resolutions = 1
    /\ message_type = "text-PlainText"
    /\ handler = "TextPlainTextHandler"
    /\ rec = get_client_recording_stream("rerun-grpc-client", 1)
    /\ last_connection_check = 0
    /\ now \in 0..MaxTime
    /\ received = 1
    /\ handled = <<1>>
    /\ last_result = "none"
    /\ sample \in {<<m>> : m \in {x \in Messages("TextPlainTextHandler") : x.decode_ok /\ x.log_ok}}
    /\ sink_calls = <<>>
    /\ returned = <<>>
    /\ probe = <<>>
    /\ forwarded = <<>>
    /\ checks = <<>>
    /\ statics = InitStatics

\* let (entity_path, header_time) = process_header_and_set_time(&header, rec)
SetTime ==
    /\ pc = "decoded"
    /\ LET p == process_header_and_set_time(sample[1].header, now)
       IN  /\ returned' = <<[entity_path |-> p.entity_path, header_time |-> p.header_time]>>
           /\ sink_calls' = sink_calls \o p.calls
    /\ pc' = "time_set"
    /\ UNCHANGED <<topic_segs, resolutions, message_type, handler, rec,
                   last_connection_check, now, received, handled, last_result, sample,
                   probe, forwarded, checks, statics>>

NextHeader == SetTime

SpecHeader == InitHeader /\ [][NextHeader]_vars

----------------------------------------------------------------------------
(* Specification of the registry: a subscriber on any topic, resolved *)

RECURSIVE SeqsUpTo(_, _)
SeqsUpTo(S, n) ==
    IF n = 0 THEN {<<>>}
    ELSE LET shorter == SeqsUpTo(S, n - 1)
         IN  shorter \cup {Append(q, e) : q \in {r \in shorter : Len(r) = n - 1}, e \in S}

InitRegistry ==
    /\ topic_segs \in SeqsUpTo(SegmentKinds, MaxSegs)
    /\ pc = "subscribed"
    /\ InitCommon

NextRegistry == Resolve

SpecRegistry == InitRegistry /\ [][NextRegistry]_vars

----------------------------------------------------------------------------
(* Claims about the registry, stated on the segments of the topic *)

\* the schema a schema-type identifier names
SchemaNamed(id) ==
    CASE id = "text-PlainText" -> "text::PlainText"
      [] id = "image-compressed-ImageJPEG" -> "image::compressed::ImageJpeg"
      [] id = "image-uncompressed-ImageRawAny" -> "image::uncompressed::ImageRawAny"
      [] id = "image-uncompressed-ImageYUV420" -> "image::uncompressed::ImageYuv420"
      [] id = "image-uncompressed-ImageRGB888" -> "image::uncompressed::ImageRgb888"
      [] id = "image-uncompressed-ImageRGBA8888" -> "image::uncompressed::ImageRgba8888"
      [] id = "detection-box-Boxes2DAxisAligned" -> "detection::box::Boxes2DAxisAligned"
      [] OTHER -> "unregistered"

\* a segment "make87_messages-<text>" with a non-empty text
Typed(seg) == Len(seg) >= 2 /\ seg[1] = PREFIX
TypeOf(seg) == Concat(Tail(seg))

\* the typed segments that have at least three separators before them and a
\* separator after them
Qualifying(segs) == {i \in 4..(Len(segs) - 1) : Typed(segs[i])}

DecodesSchemaOf(h, id) ==
    /\ h \in DOMAIN encoder
    /\ encoder[h] = SchemaNamed(id)

C2_FirstCapture ==
    (resolutions > 0 /\ Cardinality(Qualifying(topic_segs)) > 1) =>
        message_type = TypeOf(topic_segs[Min(Qualifying(topic_segs))])

----------------------------------------------------------------------------
(* Claims about the dispatch loop *)

LoopPcs == {"recv", "loop", "reconnect", "reset", "handle"}

Unhealthy(c) == c.status \in {"Disconnected", "NoStatus"}

\* the handle in use while sample k is handled: the first stream, replaced
\* once per successful reconnect made so far
HandleFor(k) ==
    1 + Cardinality({i \in 1..Len(checks) : checks[i].sample <= k /\ checks[i].reconnect = "ok"})

\* C3: the handler is resolved exactly once, before the loop; when the
\* resolution gives none, main fails and no sample is ever received or handled.
C3_ResolvedOnce ==
    /\ resolutions <= 1
    /\ (pc \in LoopPcs \cup {"done", "panicked"}) => (resolutions = 1 /\ handler # "none")
    /\ (resolutions = 1 /\ handler = "none") => (pc = "failed" /\ received = 0 /\ handled = <<>>)
    /\ (received > 0 \/ handled # <<>>) => (resolutions = 1 /\ handler # "none")

\* two samples have been pulled on one resolution
C3_Witness ==
    /\ received = 2
    /\ handled = <<1, 2>>
    /\ resolutions = 1

\* C4: once samples are being received, nothing ends the process but the
\* close of the subscription: main is in the loop or has returned Ok.
C4_LoopSurvives ==
    received > 0 => pc \in LoopPcs \cup {"done"}

\* the handle is replaced only by a successful reconnect after an unhealthy
\* probe, by a stream to the same target
C5_HandleChange ==
    (rec' # rec /\ pc # "start") =>
        /\ pc = "reconnect"
        /\ Unhealthy(checks[Len(checks)])
        /\ checks'[Len(checks)].reconnect = "ok"
        /\ rec'.interface = rec.interface
        /\ rec'.name = rec.name
        /\ rec'.id # rec.id

\* a failed reconnect keeps the handle and goes on to the timer and the handler
C5_FailureKeeps ==
    (pc = "reconnect" /\ pc' # "reconnect" /\ checks'[Len(checks)].reconnect # "ok") =>
        /\ rec' = rec
        /\ pc' = "reset"

\* every artifact goes through the handle current at its sample; the sample
\* of a failed reconnect is still handled; a later sample received with the
\* interval over is checked again
C5_State ==
    /\ \A i \in 1..Len(forwarded) : forwarded[i].handle = HandleFor(forwarded[i].sample)
    /\ pc \in LoopPcs => rec.id = HandleFor(received)
    /\ (pc = "handle" /\ now - last_connection_check >= CONNECTION_CHECK_INTERVAL) =>
            \E i \in 1..Len(checks) : checks[i].sample = received
    /\ \A i \in 1..Len(checks) :
            checks[i].reconnect = "failed" =>
                \/ checks[i].sample \in {handled[j] : j \in 1..Len(handled)}
                \/ (checks[i].sample = received /\ pc \in {"reset", "handle"})

C7_Interval ==
    /\ \A i \in 1..Len(checks) :
            checks[i].at - (IF i = 1 THEN 0 ELSE checks[i - 1].at) >= CONNECTION_CHECK_INTERVAL
    /\ \A i \in 1..Len(checks) :
            (i < Len(checks) \/ pc \notin {"reconnect", "reset"}) =>
                last_connection_check >= checks[i].at
    /\ \A i, j \in 1..Len(checks) : i < j => checks[i].sample < checks[j].sample

\* the first sample checked, the second handled without a check
C7_Witness ==
    /\ handled = <<1, 2>>
    /\ Len(checks) = 1
    /\ checks[1].sample = 1

\* C8: every sample pulled is passed to the handler exactly once, in every
\* connection state, through the handle current at the time; one whose
\* handling failed is not handled again.
C8_ExactlyOnce ==
    /\ handled = [i \in 1..Len(handled) |-> i]
    /\ Len(handled) = IF pc \in {"loop", "reconnect", "reset", "handle"}
                      THEN received - 1 ELSE received
    /\ \A i \in 1..Len(forwarded) : forwarded[i].handle = HandleFor(forwarded[i].sample)
    /\ \A i, j \in 1..Len(forwarded) : i # j => forwarded[i].sample # forwarded[j].sample

\* a sample forwarded through the stale handle, and the next one failing
C8_Witness ==
    /\ pc = "recv"
    /\ handled = <<1, 2>>
    /\ last_result = "err"
    /\ \E i \in 1..Len(checks) : checks[i].sample = 1 /\ checks[i].reconnect = "failed"
    /\ \E i \in 1..Len(forwarded) : forwarded[i].sample = 1 /\ forwarded[i].handle = 1

\* a sample is pulled only when every sample before it has been through the
\* handler
C9_Pull == received' # received => Len(handled) = received

\* a check or reconnect is made only between the pull of a sample and its
\* handling
C9_CheckBetween ==
    (checks' # checks \/ (rec' # rec /\ pc # "start")) =>
        /\ Len(handled) = received - 1
        /\ handled' = handled
        /\ forwarded' = forwarded

\* artifacts reach the sink in the order of their samples
C9_Order == \A i, j \in 1..Len(forwarded) : i < j => forwarded[i].sample < forwarded[j].sample

\* C9: samples are handled one at a time: the next is pulled only when the
\* one before has been through the handler, artifacts reach the sink in the
\* order of their samples, and no check or reconnect runs while a sample is
\* being handled.
C9_OneAtATime == []C9_Order /\ [][C9_Pull /\ C9_CheckBetween]_vars

\* two artifacts at the sink
C9_Witness ==
    /\ Len(forwarded) = 2
    /\ forwarded[1].sample = 1
    /\ forwarded[2].sample = 2

\* C10: the loop is left only by a failed receive, main then returning Ok;
\* a sample in handling is handled to the end.
C10_ExitOnClose ==
    [][(pc \in LoopPcs /\ pc' \notin LoopPcs) => (pc = "recv" /\ pc' = "done")]_vars

----------------------------------------------------------------------------
(* Claims about the handlers *)

\* the positions of calls whose operation is op
CallsOf(calls, op) == {i \in 1..Len(calls) : calls[i].op = op}

\* C11: a message that decodes has the "header_time" cursor set exactly once,
\* before any artifact of it is logged; for one that does not decode the
\* cursor is not set and nothing is logged.
C11_SetTimeFirst ==
    sample # <<>> =>
        IF sample[1].decode_ok
        THEN /\ Cardinality(CallsOf(sink_calls, "set_time")) = 1
             /\ sink_calls[1].op = "set_time"
             /\ sink_calls[1].timeline = "header_time"
        ELSE sink_calls = <<>>

\* C12: process_header_and_set_time returns "/" and the wall clock when the
\* header is absent; otherwise the header's path, with one "/" put in front
\* when it does not begin with one and unchanged when it does, so that the
\* path returned begins with "/" and normalising it again changes nothing;
\* and the header's seconds + nanos/1e9 when it carries a timestamp, the wall
\* clock when it does not.
C12_HeaderResult ==
    returned # <<>> =>
        LET header == sample[1].header
            r == returned[1]
        IN  /\ r.entity_path # <<>> /\ r.entity_path[1] = SEP
            /\ ensure_leading_slash(r.entity_path) = r.entity_path
            /\ header = <<>> =>
                    /\ r.entity_path = <<SEP>>
                    /\ r.header_time = [from |-> "wallclock", t |-> now]
            /\ header # <<>> =>
                    LET path == header[1].entity_path
                        ts == header[1].timestamp
                    IN  /\ (path # <<>> /\ path[1] = SEP) => r.entity_path = path
                        /\ (path = <<>> \/ path[1] # SEP) => r.entity_path = <<SEP>> \o path
                        /\ ts # <<>> =>
                                r.header_time = [from |-> "header",
                                                 t |-> ts[1].seconds * BILLION + ts[1].nanos]
                        /\ ts = <<>> => r.header_time = [from |-> "wallclock", t |-> now]

\* a header whose path already begins with "/" and whose timestamp is set
\* has been through the function
C12_Witness ==
    /\ returned # <<>>
    /\ sample[1].header # <<>>
    /\ sample[1].header[1].entity_path = <<SEP, "cam0", SEP, "front">>
    /\ sample[1].header[1].timestamp = <<[seconds |-> 0, nanos |-> 100000000]>>
    /\ returned[1].entity_path = <<SEP, "cam0", SEP, "front">>

\* C13: a raw-any message carrying a YUV422 or YUV444 image is answered with
\* an outcome that is neither success nor failure, no artifact of it is
\* logged, and main goes on to receive the next sample.
C13_Unsupported ==
    (sample # <<>> /\ sample[1].decode_ok /\ sample[1].image # <<>>
     /\ sample[1].image[1] \in {"Yuv422", "Yuv444"}) =>
        /\ last_result \notin {"ok", "err"}
        /\ CallsOf(sink_calls, "log") = {}
        /\ pc \in LoopPcs

\* the byte count the format prescribes for width x height pixels, 0 for a
\* format without one
ExpectedBytes(format, width, height) ==
    CASE format \in {"Yuv420", "Nv12"} -> (width * height * 3) \div 2
      [] format = "Rgb888" -> width * height * 3
      [] format = "Rgba8888" -> width * height * 4
      [] OTHER -> 0

\* the format of the image a decoded message m of handler h carries
FormatOf(h, m) ==
    CASE h = "ImageRawAnyHandler" /\ m.image # <<>> -> m.image[1]
      [] h = "ImageYuv420Handler" -> "Yuv420"
      [] h = "ImageRgb888Handler" -> "Rgb888"
      [] h = "ImageRgba8888Handler" -> "Rgba8888"
      [] OTHER -> "none"

\* m is a raw image whose data has not the length its format prescribes
Malformed(h, m) ==
    /\ m.decode_ok
    /\ m.pixels # <<>>
    /\ FormatOf(h, m) \in {"Yuv420", "Nv12", "Rgb888", "Rgba8888"}
    /\ m.pixels[1].len # ExpectedBytes(FormatOf(h, m), m.pixels[1].width, m.pixels[1].height)

\* C14: a raw image whose pixel data has not the length its format prescribes
\* for its width and height is answered with an error, without a panic, and
\* no artifact of it is logged.
C14_Malformed ==
    (sample # <<>> /\ Malformed(handler, sample[1])) =>
        /\ last_result = "err"
        /\ CallsOf(sink_calls, "log") = {}

----------------------------------------------------------------------------
(* Claims about the connection check *)

\* the sink of the last probe sent no status before the timeout
NoStatusInTime(pr) == pr.sink.kind # "grpc" \/ pr.sink.at >= PROBE_TIMEOUT

\* C15: a probe returns within the timeout, after which the sample is handled;
\* when no status has come within the timeout the check goes on to a
\* reconnect attempt.
C15_ProbeBounded ==
    probe # <<>> =>
        /\ probe[1].waited <= PROBE_TIMEOUT
        /\ NoStatusInTime(probe[1]) =>
                /\ checks[Len(checks)].status = "NoStatus"
                /\ \/ pc = "reconnect"
                   \/ checks[Len(checks)].reconnect \in {"ok", "failed"}
        /\ \/ pc \in {"reconnect", "reset", "handle"}
           \/ checks[Len(checks)].sample \in {handled[j] : j \in 1..Len(handled)}

\* a probe timed out on a sink that answered late, a reconnect was tried in
\* that check and the sample was handled
C15_Witness ==
    /\ probe # <<>>
    /\ probe[1].sink = [kind |-> "grpc", status |-> "Connected", at |-> 150]
    /\ probe[1].waited = PROBE_TIMEOUT
    /\ checks[Len(checks)].reconnect = "failed"
    /\ checks[Len(checks)].sample \in {handled[j] : j \in 1..Len(handled)}

\* a probe or a reconnect is made only for a sample that has been received
\* and not yet handled, and none while main waits for a sample
C16_OnlyOnSample ==
    /\ Len(checks') > Len(checks) =>
            /\ pc = "loop"
            /\ checks'[Len(checks')].sample = received
            /\ Len(handled) = received - 1
    /\ (checks' # checks \/ (rec' # rec /\ pc # "start")) => pc \in {"loop", "reconnect"}
    /\ pc = "recv" => (checks' = checks /\ rec' = rec /\ last_connection_check' = last_connection_check)

\* however long main has waited, the sample then received is checked before
\* it is handled
C16_FirstSample ==
    /\ pc = "handle" => now - last_connection_check < CONNECTION_CHECK_INTERVAL
    /\ \A i \in 1..Len(checks) : checks[i].sample \in 1..received

\* C16: a check is made only as part of processing a received sample, after
\* the receive and before the handling; while no sample arrives there is no
\* check and no reconnect, and the first sample received after the interval
\* has passed is the one checked.
C16_CheckOnReceipt == []C16_FirstSample /\ [][C16_OnlyOnSample]_vars

\* main waited two intervals without a check; the first sample then found
\* the sink disconnected
C16_Witness ==
    /\ Len(checks) = 1
    /\ checks[1].at >= 2 * CONNECTION_CHECK_INTERVAL
    /\ checks[1].sample = 1
    /\ checks[1].status = "Disconnected"
    /\ checks[1].reconnect = "ok"

\* a reconnect has been attempted, or is being attempted, in check i
Attempted(i) == checks[i].reconnect # "none" \/ (i = Len(checks) /\ pc = "reconnect")

\* C17: a check attempts a reconnect exactly when its probe reported
\* Disconnected or gave no status (a timeout, or a sink that is no GrpcSink);
\* Connected and Connecting never lead to one, so that while every probe
\* reports Connecting the first stream is kept.
C17_ReconnectIff ==
    /\ \A i \in 1..Len(checks) :
            Attempted(i) <=> checks[i].status \in {"Disconnected", "NoStatus"}
    /\ probe # <<>> =>
            (checks[Len(checks)].status = "NoStatus" <=> NoStatusInTime(probe[1]))
    /\ (pc # "start" /\ \A i \in 1..Len(checks) : checks[i].status \in {"Connected", "Connecting"})
            => rec.id = 1

\* two checks found the sink Connecting; both samples went out through the
\* first stream
C17_Witness ==
    /\ Len(checks) = 2
    /\ \A i \in 1..2 : checks[i].status = "Connecting" /\ checks[i].reconnect = "none"
    /\ handled = <<1, 2>>
    /\ rec.id = 1

----------------------------------------------------------------------------
(* Claims about the registry's content *)

\* the seven identifiers and the handler each one's factory builds
SevenHandlers ==
    ("text-PlainText" :> "TextPlainTextHandler")
    @@ ("image-compressed-ImageJPEG" :> "ImageCompressedJpegHandler")
    @@ ("image-uncompressed-ImageRawAny" :> "ImageRawAnyHandler")
    @@ ("image-uncompressed-ImageYUV420" :> "ImageYuv420Handler")
    @@ ("image-uncompressed-ImageRGB888" :> "ImageRgb888Handler")
    @@ ("image-uncompressed-ImageRGBA8888" :> "ImageRgba8888Handler")
    @@ ("detection-box-Boxes2DAxisAligned" :> "Boxes2DAxisAlignedHandler")

\* C18: the registry holds exactly the seven identifiers, each with its one
\* factory; NV12 is not among them, so a subscription to an NV12 topic fails
\* at startup with nothing received, and an NV12 image is logged only by the
\* raw-any handler, for a message that carries one.
C18_SevenIdentifiers ==
    /\ MessageTypeRegistry_new = SevenHandlers
    /\ Cardinality(DOMAIN MessageTypeRegistry_new) = 7
    /\ (resolutions > 0 /\ topic_segs[4] = <<PREFIX, "image-uncompressed-ImageNV12">>) =>
            (handler = "none" /\ pc = "failed" /\ received = 0)
    /\ \A i \in CallsOf(sink_calls, "log") :
            sink_calls[i].artifact = "Image NV12" =>
                (handler = "ImageRawAnyHandler" /\ sample[1].image = <<"Nv12">>)

\* an NV12 image inside a raw-any message has been logged
C18_Witness ==
    /\ handler = "ImageRawAnyHandler"
    /\ sample # <<>>
    /\ sample[1].image = <<"Nv12">>
    /\ \E i \in CallsOf(sink_calls, "log") :
            sink_calls[i].artifact = "Image NV12" /\ sink_calls[i].ok

====
